---- MODULE Spec2Model ----
(***************************************************************************)
(* Listing cache and listing render pipeline of the website project type.  *)
(*                                                                         *)
(* Paths are sequences of path segments; an absolute path starts with the  *)
(* segment "/".  Glob patterns are sequences of segment patterns.          *)
(***************************************************************************)
EXTENDS Integers, Sequences, FiniteSets, TLC

VARIABLES
  store,      \* the persisted project listing data (website-listing-project)
  meta,       \* page -> what readListings yields for it (its front matter)
  pass,       \* the render pass in progress (caller of the listing functions)
  lastMut,    \* history: the last operation that changed the store
  recorded,   \* history: page -> globs of its latest record since a clear
  pg,         \* single page render: the page being rendered
  extras,     \* single page render: what listingHtmlDependencies returned
  feedCall,   \* single page render: the call of createFeed, if one was made
  conc,       \* concurrent renders: page -> position of its render
  pup,        \* browser automation: the call of a puppeteer helper
  nbk,        \* notebook outputs: preserved html and the converted text
  rnd         \* render of one file: its position and the files on disk

cacheVars == <<store, meta, pass, lastMut, recorded>>
pageVars == <<pg, extras, feedCall>>
otherVars == <<conc, pup, nbk, rnd>>
vars == <<store, meta, pass, lastMut, recorded, pg, extras, feedCall,
          conc, pup, nbk, rnd>>

(***************************************************************************)
(* Bounds of the model.                                                    *)
(***************************************************************************)
\* most listings one page of the project declares
MaxListings == 2
\* most listings the page of the single page render declares
MaxPageListings == 1
\* most outputs the notebook holds
MaxOutputs == 2
\* most pieces the converted html of the notebook is made of
MaxChunks == 3

Undefined == "undefined"

Range(s) == {s[i] : i \in 1..Len(s)}

(***************************************************************************)
(* path/mod.ts: join and relative on normalized paths.                     *)
(***************************************************************************)
join(dir, rel) == dir \o rel

RECURSIVE CommonPrefix(_, _)
CommonPrefix(a, b) ==
  IF a = <<>> \/ b = <<>> \/ Head(a) # Head(b) THEN 0
  ELSE 1 + CommonPrefix(Tail(a), Tail(b))

relative(from, to) ==
  LET k == CommonPrefix(from, to)
  IN  [i \in 1..(Len(from) - k) |-> ".."] \o SubSeq(to, k + 1, Len(to))

(***************************************************************************)
(* The project: its root directory, its listing-capable pages, the files   *)
(* a render request can name, and the templates present on disk.           *)
(***************************************************************************)
ProjectDir == <<"/", "proj">>

BlogIndex == <<"blog", "index.qmd">>
DocsIndex == <<"docs", "index.qmd">>
Pages == {BlogIndex, DocsIndex}

PostA == <<"posts", "a.md">>
Readme == <<"readme.md">>
Files == {PostA, Readme, DocsIndex}
FileSets == SUBSET Files

ExistingTemplates == {"custom.ejs"}
existsSync(path) == path \in ExistingTemplates

(***************************************************************************)
(* Glob matching over project-relative paths.                              *)
(***************************************************************************)
ExtOf ==
  "a.md" :> "md" @@ "readme.md" :> "md" @@
  "index.qmd" :> "qmd" @@ "posts" :> "" @@ "docs" :> "" @@ "blog" :> ""

StarExt == "*.md" :> "md" @@ "*.qmd" :> "qmd"

SegMatch(pat, seg) ==
  IF pat \in DOMAIN StarExt THEN ExtOf[seg] = StarExt[pat]
  ELSE IF pat = "*" THEN TRUE
  ELSE pat = seg

RECURSIVE GlobMatch(_, _)
GlobMatch(glob, path) ==
  IF glob = <<>> THEN path = <<>>
  ELSE IF Head(glob) = "**"
    THEN \/ GlobMatch(Tail(glob), path)
         \/ path # <<>> /\ GlobMatch(glob, Tail(path))
  ELSE /\ path # <<>>
       /\ SegMatch(Head(glob), Head(path))
       /\ GlobMatch(Tail(glob), Tail(path))

GPosts == <<"posts", "*.md">>
GDocs == <<"docs", "*.qmd">>
GAnyMd == <<"**", "*.md">>

\* core/path.ts filterPaths: the files some glob of the list matches
filterPaths(root, files, globs) ==
  [include |-> {f \in files : \E i \in 1..Len(globs) : GlobMatch(globs[i], f)}]

\* core/lodash.ts uniqBy with no iteratee: first occurrences, in order
RECURSIVE uniqBy(_)
uniqBy(s) ==
  IF s = <<>> THEN <<>>
  ELSE LET front == uniqBy(SubSeq(s, 1, Len(s) - 1))
           last == s[Len(s)]
       IN  IF last \in Range(front) THEN front ELSE Append(front, last)

(***************************************************************************)
(* website-listing-project.ts: the persisted listing data of the project.  *)
(* The record on disk is missing, unreadable ("corrupt") or readable       *)
(* ("ok"); a readable record holds a listingMap or none.  The listingMap   *)
(* is an object: a sequence of (path, globs) entries in insertion order.   *)
(***************************************************************************)
NoData == [hasMap |-> FALSE, listingMap |-> <<>>]

MissingStore == [status |-> "missing", data |-> NoData]
CorruptStore == [status |-> "corrupt", data |-> NoData]

listingProjectData(st) ==
  IF st.status = "ok" THEN st.data ELSE NoData

clearListingProjectData(st) ==
  [status |-> "ok", data |-> NoData]

\* the globs of the contents of the listings, each once, in order
RECURSIVE GlobsOf(_)
GlobsOf(descriptors) ==
  IF descriptors = <<>> THEN <<>>
  ELSE uniqBy(GlobsOf(SubSeq(descriptors, 1, Len(descriptors) - 1))
              \o descriptors[Len(descriptors)].listing.contents)

KeyIndex(map, key) ==
  IF \E i \in 1..Len(map) : map[i].path = key
  THEN CHOOSE i \in 1..Len(map) : map[i].path = key
  ELSE 0

cacheListingProjectData(st, key, descriptors) ==
  LET data == listingProjectData(st)
      map == IF data.hasMap THEN data.listingMap ELSE <<>>
      entry == [path |-> key, globs |-> GlobsOf(descriptors)]
      i == KeyIndex(map, key)
  IN  [status |-> "ok",
       data |-> [hasMap |-> TRUE,
                 listingMap |-> IF i = 0 THEN Append(map, entry)
                                ELSE [map EXCEPT ![i] = entry]]]

\* reading the entry of a page, as a client of the store does
CacheEntry(st, key) ==
  LET map == listingProjectData(st).listingMap
      i == KeyIndex(map, key)
  IN  IF i = 0 THEN Undefined ELSE map[i].globs

CacheKeys(st) ==
  {e.path : e \in Range(listingProjectData(st).listingMap)}

(***************************************************************************)
(* website-listing.ts: listingSupplementalFiles.                           *)
(* A call returns the changed store and the value it returns or throws.    *)
(***************************************************************************)
Returned(v) == [threw |-> FALSE, value |-> v]
Threw(msg) == [threw |-> TRUE, value |-> msg]

\* listingProjData.listingMap, with no default
listingMapNoDefault(data) ==
  [defined |-> data.hasMap, map |-> data.listingMap]

\* listingProjData.listingMap || {}
listingMapOrEmpty(data) ==
  IF data.hasMap THEN [defined |-> TRUE, map |-> data.listingMap]
  ELSE [defined |-> TRUE, map |-> <<>>]

\* a listing whose globs include exactly one of the files is passed over
matchingEntriesMoreThanOne(map, files) ==
  LET Test(e) == Cardinality(filterPaths(ProjectDir, files, e.globs).include) > 1
  IN  SelectSeq(map, Test)

\* every cached listing is taken, matching or not
matchingEntriesAll(map, files) == map

\* the entries of the listingMap some file of the list matches
matchingEntries(map, files) ==
  LET Test(e) == Cardinality(filterPaths(ProjectDir, files, e.globs).include) > 0
  IN  SelectSeq(map, Test)

\* the keys of the cache, not joined onto the project directory
supplementalPathsRelative(matching) ==
  uniqBy([i \in 1..Len(matching) |-> matching[i].path])

supplementalPaths(matching) ==
  uniqBy([i \in 1..Len(matching) |-> join(ProjectDir, matching[i].path)])

\* a full render that leaves the cache as it is
clearOnFullRenderSkipped(st) == st

\* This is a full render, clear the cache
clearOnFullRender(st) == clearListingProjectData(st)

\* the cache cleared by every call, incremental or not
listingSupplementalFilesClearing(st, files, incremental) ==
  IF incremental
  THEN LET lm == listingMapOrEmpty(listingProjectData(st))
           matching == matchingEntries(lm.map, files)
       IN  [store |-> clearOnFullRender(st),
            ret |-> IF Len(matching) > 0
                    THEN Returned(supplementalPaths(matching))
                    ELSE Returned(<<>>)]
  ELSE [store |-> clearOnFullRender(st), ret |-> Returned(<<>>)]

listingSupplementalFiles(st, files, incremental) ==
  IF incremental
  THEN LET lm == listingMapOrEmpty(listingProjectData(st))
       IN  IF ~lm.defined
           THEN [store |-> st,
                 ret |-> Threw(<<"TypeError: Cannot convert undefined or null to object">>)]
           ELSE LET matching == matchingEntries(lm.map, files)
                IN  [store |-> st,
                     ret |-> IF Len(matching) > 0
                             THEN Returned(supplementalPaths(matching))
                             ELSE Returned(<<>>)]
  ELSE [store |-> clearOnFullRender(st), ret |-> Returned(<<>>)]

(***************************************************************************)
(* website-listing.ts: markdownHandler, the dispatch on the listing type.  *)
(***************************************************************************)
TypeDefault == "default"
TypeGrid == "grid"
TypeTable == "table"
TypeCustom == "custom"

kTableTemplate == "projects/website/listing/listing-table.ejs.md"
kGridTemplate == "projects/website/listing/listing-grid.ejs.md"
kDefaultTemplate == "projects/website/listing/listing-default.ejs.md"

\* core/resources.ts resourcePath: the bundled file of that name
resourcePath(name) ==
  (kTableTemplate :> "/share/projects/website/listing/listing-table.ejs.md" @@
   kGridTemplate :> "/share/projects/website/listing/listing-grid.ejs.md" @@
   kDefaultTemplate :> "/share/projects/website/listing/listing-default.ejs.md")[name]

\* website-listing-template.ts templateMarkdownHandler: the handler keeps
\* what it was created with
templateMarkdownHandler(template, listing, items, bundled) ==
  [threw |-> FALSE, message |-> <<>>, template |-> template,
   listing |-> listing, items |-> items, bundled |-> bundled]

HandlerError(listing, items, message) ==
  [threw |-> TRUE, message |-> message, template |-> Undefined,
   listing |-> listing, items |-> items, bundled |-> FALSE]

\* the dispatch with the Grid case left out
markdownHandlerNoGrid(listing, items) ==
  CASE listing.type = TypeTable ->
         templateMarkdownHandler(resourcePath(kTableTemplate), listing, items, TRUE)
    [] listing.type = TypeCustom ->
         IF listing.template = Undefined
         THEN HandlerError(listing, items,
                <<"In order to use a listing of type custom, please provide the path to a template.">>)
         ELSE IF ~existsSync(listing.template)
         THEN HandlerError(listing, items,
                <<"The template ", listing.template, " can't be found.">>)
         ELSE templateMarkdownHandler(listing.template, listing, items, FALSE)
    [] OTHER ->
         templateMarkdownHandler(resourcePath(kDefaultTemplate), listing, items, TRUE)

\* the dispatch with the checks of the Custom template left out
markdownHandlerUnchecked(listing, items) ==
  CASE listing.type = TypeTable ->
         templateMarkdownHandler(resourcePath(kTableTemplate), listing, items, TRUE)
    [] listing.type = TypeGrid ->
         templateMarkdownHandler(resourcePath(kGridTemplate), listing, items, TRUE)
    [] listing.type = TypeCustom ->
         templateMarkdownHandler(listing.template, listing, items, FALSE)
    [] OTHER ->
         templateMarkdownHandler(resourcePath(kDefaultTemplate), listing, items, TRUE)

\* the dispatch whose error for a template that is not found leaves the
\* path out
markdownHandlerNoPath(listing, items) ==
  CASE listing.type = TypeTable ->
         templateMarkdownHandler(resourcePath(kTableTemplate), listing, items, TRUE)
    [] listing.type = TypeGrid ->
         templateMarkdownHandler(resourcePath(kGridTemplate), listing, items, TRUE)
    [] listing.type = TypeCustom ->
         IF listing.template = Undefined
         THEN HandlerError(listing, items,
                <<"In order to use a listing of type custom, please provide the path to a template.">>)
         ELSE IF ~existsSync(listing.template)
         THEN HandlerError(listing, items, <<"The template can't be found.">>)
         ELSE templateMarkdownHandler(listing.template, listing, items, FALSE)
    [] OTHER ->
         templateMarkdownHandler(resourcePath(kDefaultTemplate), listing, items, TRUE)

markdownHandler(listing, items) ==
  CASE listing.type = TypeTable ->
         templateMarkdownHandler(resourcePath(kTableTemplate), listing, items, TRUE)
    [] listing.type = TypeGrid ->
         templateMarkdownHandler(resourcePath(kGridTemplate), listing, items, TRUE)
    [] listing.type = TypeCustom ->
         IF listing.template = Undefined
         THEN HandlerError(listing, items,
                <<"In order to use a listing of type custom, please provide the path to a template.">>)
         ELSE IF ~existsSync(listing.template)
         THEN HandlerError(listing, items,
                <<"The template ", listing.template, " can't be found.">>)
         ELSE templateMarkdownHandler(listing.template, listing, items, FALSE)
    [] OTHER ->
         templateMarkdownHandler(resourcePath(kDefaultTemplate), listing, items, TRUE)

(***************************************************************************)
(* website-listing.ts: listingHtmlDependencies.  rd is what readListings   *)
(* yields for the source: its descriptors and the shared options.          *)
(***************************************************************************)
NoExtras(kind, message) ==
  [kind |-> kind, message |-> message, handlers |-> <<>>, options |-> Undefined]

\* the page recorded under its absolute path
listingKeyAbsolute(source) == source

\* the page recorded under its file name alone
listingKeyBasename(source) == <<source[Len(source)]>>

\* the key the page is recorded under
listingKey(source) == relative(ProjectDir, source)

\* the early return left out
noListingsNever(rd) == FALSE

\* a page with a single listing taken for one with none
noListingsUpToOne(rd) == Len(rd.listingDescriptors) <= 1

\* If there no listings, don't inject the dependencies
noListings(rd) == Len(rd.listingDescriptors) = 0

\* the page recorded only once all its handlers are created
listingHtmlDependenciesRecordLast(source, rd, st) ==
  IF noListings(rd)
  THEN [store |-> st, ret |-> NoExtras("undefined", <<>>)]
  ELSE LET hs == [i \in 1..Len(rd.listingDescriptors) |->
                    markdownHandler(rd.listingDescriptors[i].listing,
                                    rd.listingDescriptors[i].items)]
           bad == {i \in 1..Len(hs) : hs[i].threw}
       IN  IF bad # {}
           THEN LET first == CHOOSE i \in bad : \A j \in bad : i <= j
                IN  [store |-> st, ret |-> NoExtras("error", hs[first].message)]
           ELSE [store |-> cacheListingProjectData(st, listingKey(source),
                                                   rd.listingDescriptors),
                 ret |-> [kind |-> "extras", message |-> <<>>,
                          handlers |-> hs, options |-> rd.options]]

listingHtmlDependencies(source, rd, st) ==
  IF noListings(rd)
  THEN [store |-> st, ret |-> NoExtras("undefined", <<>>)]
  ELSE LET st2 == cacheListingProjectData(st, listingKey(source),
                                          rd.listingDescriptors)
           hs == [i \in 1..Len(rd.listingDescriptors) |->
                    markdownHandler(rd.listingDescriptors[i].listing,
                                    rd.listingDescriptors[i].items)]
           bad == {i \in 1..Len(hs) : hs[i].threw}
       IN  IF bad # {}
           THEN LET first == CHOOSE i \in bad : \A j \in bad : i <= j
                IN  [store |-> st2, ret |-> NoExtras("error", hs[first].message)]
           ELSE [store |-> st2,
                 ret |-> [kind |-> "extras", message |-> <<>>,
                          handlers |-> hs, options |-> rd.options]]

(***************************************************************************)
(* The project's pages and what readListings yields for them.              *)
(***************************************************************************)
SeqsUpTo(S, n) == UNION {[1..k -> S] : k \in 0..n}

NoFeed == [defined |-> FALSE, config |-> <<>>]
NoOptions == [feed |-> NoFeed, categories |-> FALSE]

LPosts ==
  [id |-> "listing-posts", type |-> TypeDefault, template |-> Undefined,
   contents |-> <<GPosts>>]
LDocs ==
  [id |-> "listing-docs", type |-> TypeTable, template |-> Undefined,
   contents |-> <<GDocs, GAnyMd>>]
LBad ==
  [id |-> "listing-custom", type |-> TypeCustom, template |-> "missing.ejs",
   contents |-> <<GPosts>>]

ProjectDescriptors == {[listing |-> l, items |-> <<>>] : l \in {LPosts, LDocs, LBad}}

\* the listings of a page have distinct ids
DistinctIds(ds) ==
  \A i, j \in 1..Len(ds) : ds[i].listing.id = ds[j].listing.id => i = j

PageMetas ==
  {[listingDescriptors |-> ds, options |-> NoOptions] :
     ds \in {d \in SeqsUpTo(ProjectDescriptors, MaxListings) : DistinctIds(d)}}

NoListings == [listingDescriptors |-> <<>>, options |-> NoOptions]

\* website-listing-read.ts readListings, for a page of the project
readListings(source) == meta[relative(ProjectDir, source)]

(***************************************************************************)
(* The cache protocol: render passes over the project.                     *)
(***************************************************************************)
NoPass ==
  [kind |-> "none", status |-> "idle", files |-> {}, ret |-> Returned(<<>>),
   todo |-> {}, before |-> {}, wrote |-> {}]

NotRecorded == [has |-> FALSE, globs |-> <<>>]
NoMutation == [op |-> "init", path |-> <<>>]

CacheInit ==
  /\ store = MissingStore
  /\ meta = [p \in Pages |-> NoListings]
  /\ pass = NoPass
  /\ lastMut = NoMutation
  /\ recorded = [p \in Pages |-> NotRecorded]

PageIdle ==
  /\ pg = [stage |-> "off"]
  /\ extras = NoExtras("none", <<>>)
  /\ feedCall = [called |-> FALSE]

\* no concurrent render, no browser automation, no notebook in progress
OtherIdle ==
  /\ conc = [stage |-> "off"]
  /\ pup = [pc |-> "off"]
  /\ nbk = [stage |-> "off"]
  /\ rnd = [pc |-> "off"]

Init == CacheInit /\ PageIdle /\ OtherIdle

\* the author changes the front matter of a page between two passes
EditPage(p, m) ==
  /\ pass.kind = "none"
  /\ m # meta[p]
  /\ meta' = [meta EXCEPT ![p] = m]
  /\ UNCHANGED <<store, pass, lastMut, recorded>>
  /\ UNCHANGED pageVars
  /\ UNCHANGED otherVars

\* the persisted record is deleted, or damaged, between two passes
LoseStore(st) ==
  /\ pass.kind = "none"
  /\ store.status = "ok"
  /\ store' = st
  /\ lastMut' = [op |-> "lost", path |-> <<>>]
  /\ recorded' = [p \in Pages |-> NotRecorded]
  /\ UNCHANGED <<meta, pass>>
  /\ UNCHANGED pageVars
  /\ UNCHANGED otherVars

\* the pages a pass renders: the named pages, and the supplemental files
RenderTargets(files, ret, incremental) ==
  IF ~incremental THEN Pages
  ELSE IF ret.threw THEN {}
  ELSE (files \cap Pages) \cup
       ({relative(ProjectDir, ret.value[i]) : i \in 1..Len(ret.value)} \cap Pages)

\* a pass starts with a call of listingSupplementalFiles
StartPass(files, incremental) ==
  /\ pass.kind = "none"
  /\ LET r == listingSupplementalFiles(store, files, incremental)
     IN  /\ store' = r.store
         /\ pass' = [kind |-> IF incremental THEN "incremental" ELSE "full",
                     status |-> IF r.ret.threw THEN "failed" ELSE "queried",
                     files |-> IF incremental THEN files ELSE {},
                     ret |-> r.ret,
                     todo |-> RenderTargets(files, r.ret, incremental),
                     before |-> CacheKeys(store),
                     wrote |-> {}]
  /\ IF incremental
     THEN UNCHANGED <<lastMut, recorded>>
     ELSE /\ lastMut' = [op |-> "clear", path |-> <<>>]
          /\ recorded' = [p \in Pages |-> NotRecorded]
  /\ UNCHANGED meta
  /\ UNCHANGED pageVars
  /\ UNCHANGED otherVars

\* the pass renders one of its pages: listingHtmlDependencies
RenderPage(p) ==
  /\ pass.status \in {"queried", "running"}
  /\ p \in pass.todo
  /\ LET source == join(ProjectDir, p)
         rd == readListings(source)
         r == listingHtmlDependencies(source, rd, store)
         left == pass.todo \ {p}
         wrote == IF r.ret.kind = "undefined" THEN pass.wrote
                  ELSE pass.wrote \cup {p}
     IN  /\ store' = r.store
         /\ pass' = IF r.ret.kind = "error"
                    THEN [pass EXCEPT !.status = "failed", !.todo = {},
                                      !.files = {}, !.ret = Returned(<<>>),
                                      !.wrote = wrote]
                    ELSE [pass EXCEPT !.status = IF left = {} THEN "done"
                                                 ELSE "running",
                                      !.todo = left,
                                      !.files = {}, !.ret = Returned(<<>>),
                                      !.wrote = wrote]
         /\ IF r.ret.kind = "undefined"
            THEN UNCHANGED <<lastMut, recorded>>
            ELSE /\ lastMut' = [op |-> "record", path |-> p]
                 /\ recorded' = [recorded EXCEPT ![p] =
                                   [has |-> TRUE,
                                    globs |-> GlobsOf(rd.listingDescriptors)]]
  /\ UNCHANGED meta
  /\ UNCHANGED pageVars
  /\ UNCHANGED otherVars

EndPass ==
  /\ \/ pass.status \in {"done", "failed"}
     \/ pass.status = "queried" /\ pass.todo = {}
  /\ pass' = NoPass
  /\ UNCHANGED <<store, meta, lastMut, recorded>>
  /\ UNCHANGED pageVars
  /\ UNCHANGED otherVars

Next ==
  \/ \E p \in Pages, m \in PageMetas : EditPage(p, m)
  \/ \E st \in {MissingStore, CorruptStore} : LoseStore(st)
  \/ \E files \in FileSets, incremental \in BOOLEAN : StartPass(files, incremental)
  \/ \E p \in Pages : RenderPage(p)
  \/ EndPass

Spec == Init /\ [][Next]_vars

(***************************************************************************)
(* The render of one page: listingHtmlDependencies, the conversion, and    *)
(* the post processor listingHtmlDependencies returned.                    *)
(***************************************************************************)
ListingTypes == {TypeDefault, TypeGrid, TypeTable, TypeCustom, Undefined, "masonry"}
Templates == {Undefined, "custom.ejs", "missing.ejs"}
ContentChoices == {<<GPosts>>, <<GDocs, GAnyMd>>}
ItemChoices == {<<>>, <<[title |-> "A", path |-> PostA, categories |-> {"news"}]>>}

ListingIds == <<"listing-1", "listing-2", "listing-3">>

ListingShapes ==
  [type : ListingTypes, template : Templates, contents : ContentChoices,
   items : ItemChoices]

\* the descriptors of a page: the listing at position i has the i-th id
DescriptorsOf(shapes) ==
  [i \in 1..Len(shapes) |->
     [listing |-> [id |-> ListingIds[i], type |-> shapes[i].type,
                   template |-> shapes[i].template,
                   contents |-> shapes[i].contents],
      items |-> shapes[i].items]]

FeedConfigs ==
  {NoFeed,
   [defined |-> TRUE, config |-> "title" :> "Posts"],
   [defined |-> TRUE, config |-> "type" :> "partial"],
   [defined |-> TRUE, config |-> "type" :> "full"],
   [defined |-> TRUE, config |-> "type" :> "full" @@ "title" :> "Posts"]}

SharedOptions == [feed : FeedConfigs, categories : BOOLEAN]

\* the document the conversion produces for the page
Documents ==
  [sidebar : BOOLEAN, sidebarChildren : {<<>>}, processed : {{}}]

\* the page has not been converted yet
NoDocument == [sidebar |-> FALSE, sidebarChildren |-> <<>>, processed |-> {}]

OtherEntries ==
  <<[path |-> BlogIndex, globs |-> <<GAnyMd>>],
    [path |-> DocsIndex, globs |-> <<GDocs>>]>>

PageStores ==
  {MissingStore,
   [status |-> "ok", data |-> [hasMap |-> TRUE, listingMap |-> OtherEntries]]}

\* the feed options: type "partial", then the keys of the feed configuration
listingFeedOptionsFull(feed) == feed.config @@ ("type" :> "full")

listingFeedOptions(feed) == feed.config @@ ("type" :> "partial")

\* website-pipeline-md.ts processRenderedMarkdown: every handler's fragment
\* is put into the document
processRenderedMarkdown(doc, handlers) ==
  [doc EXCEPT !.processed = {handlers[i].listing.id : i \in 1..Len(handlers)}]

\* the category sidebar appended whatever the categories option is
listingPostProcessAlways(doc, options) ==
  IF doc.sidebar
  THEN [doc EXCEPT !.sidebarChildren = @ \o <<"headingEl", "categoriesEl">>]
  ELSE doc

\* website-listing.ts listingPostProcess: the category sidebar
listingPostProcess(doc, options) ==
  IF options.categories
  THEN IF doc.sidebar
       THEN [doc EXCEPT !.sidebarChildren = @ \o <<"headingEl", "categoriesEl">>]
       ELSE doc
  ELSE doc

\* website-listing-feed.ts createFeed: the feed files written for the page
createFeed(source, listingOptions) ==
  <<SubSeq(source, 1, Len(source) - 1) \o <<"index.xml">>>>

\* the post processor of the page: the document, the call of createFeed and
\* the supporting files
listingPostProcessor(doc, source, ex) ==
  LET doc1 == processRenderedMarkdown(doc, ex.handlers)
      doc2 == listingPostProcess(doc1, ex.options)
  IN  IF ex.options.feed.defined
      THEN LET listingOptions == listingFeedOptions(ex.options.feed)
           IN  [doc |-> doc2,
                feedCall |-> [called |-> TRUE, options |-> listingOptions],
                supporting |-> createFeed(source, listingOptions)]
      ELSE [doc |-> doc2,
            feedCall |-> [called |-> FALSE],
            supporting |-> <<>>]

PageInit ==
  /\ pg \in {[stage |-> "start", source |-> join(ProjectDir, BlogIndex),
             rd |-> [listingDescriptors |-> DescriptorsOf(shapes),
                     options |-> o],
             doc |-> NoDocument, supporting |-> <<>>,
             conversions |-> 0, before |-> st] :
               shapes \in SeqsUpTo(ListingShapes, MaxPageListings),
               o \in SharedOptions, st \in PageStores}
  /\ extras = NoExtras("none", <<>>)
  /\ feedCall = [called |-> FALSE]

CacheIdle ==
  /\ store \in PageStores
  /\ meta = [p \in Pages |-> NoListings]
  /\ pass = NoPass
  /\ lastMut = NoMutation
  /\ recorded = [p \in Pages |-> NotRecorded]

InitPage == CacheIdle /\ PageInit /\ OtherIdle /\ pg.before = store

\* the render asks for the extras of the page
PageDependencies ==
  /\ pg.stage = "start"
  /\ LET r == listingHtmlDependencies(pg.source, pg.rd, store)
     IN  /\ store' = r.store
         /\ extras' = r.ret
         /\ pg' = [pg EXCEPT !.stage = IF r.ret.kind = "error" THEN "failed"
                                       ELSE "prepared"]
  /\ UNCHANGED <<meta, pass, lastMut, recorded, feedCall>>
  /\ UNCHANGED otherVars

\* the conversion engine converts the page to the document d, or fails
PageConvert(ok, d) ==
  /\ pg.stage = "prepared"
  /\ pg' = [pg EXCEPT !.stage = IF ok THEN "converted" ELSE "failed",
                      !.doc = IF ok THEN d ELSE @,
                      !.conversions = @ + 1]
  /\ UNCHANGED <<store, meta, pass, lastMut, recorded, extras, feedCall>>
  /\ UNCHANGED otherVars

\* the html post processors of the page run on the converted document
PagePostProcess ==
  /\ pg.stage = "converted"
  /\ IF extras.kind = "extras"
     THEN LET r == listingPostProcessor(pg.doc, pg.source, extras)
          IN  /\ pg' = [pg EXCEPT !.stage = "done", !.doc = r.doc,
                                  !.supporting = r.supporting]
              /\ feedCall' = r.feedCall
     ELSE /\ pg' = [pg EXCEPT !.stage = "done"]
          /\ UNCHANGED feedCall
  /\ UNCHANGED <<store, meta, pass, lastMut, recorded, extras>>
  /\ UNCHANGED otherVars

NextPage ==
  \/ PageDependencies
  \/ \E ok \in BOOLEAN, d \in Documents : PageConvert(ok, d)
  \/ PagePostProcess

SpecPage == InitPage /\ [][NextPage]_vars

(***************************************************************************)
(* Renders of the pages of one project in flight together.  A render is    *)
(* suspended where listingHtmlDependencies awaits readListings (line 109)  *)
(* and while the page is converted; from line 115 to its return the        *)
(* function runs without an await.                                         *)
(***************************************************************************)
ConcIdle == [p \in Pages |-> "idle"]

ConcInit ==
  /\ store \in PageStores
  /\ meta \in [Pages -> PageMetas]
  /\ pass = NoPass
  /\ lastMut = NoMutation
  /\ recorded = [p \in Pages |-> NotRecorded]
  /\ conc = [stage |-> "on", pc |-> ConcIdle, before |-> store]
  /\ pup = [pc |-> "off"]
  /\ nbk = [stage |-> "off"]
  /\ rnd = [pc |-> "off"]

InitConc == ConcInit /\ PageIdle

\* the render of page p calls listingHtmlDependencies, which awaits
\* readListings
ConcCall(p) ==
  /\ conc.stage = "on"
  /\ conc.pc[p] = "idle"
  /\ conc' = [conc EXCEPT !.pc[p] = "reading"]
  /\ UNCHANGED <<store, meta, pass, lastMut, recorded, pup, nbk, rnd>>
  /\ UNCHANGED pageVars

\* readListings has resolved: the rest of listingHtmlDependencies runs
ConcResume(p) ==
  /\ conc.stage = "on"
  /\ conc.pc[p] = "reading"
  /\ LET source == join(ProjectDir, p)
         r == listingHtmlDependencies(source, readListings(source), store)
     IN  /\ store' = r.store
         /\ conc' = [conc EXCEPT !.pc[p] =
                       IF r.ret.kind = "error" THEN "failed"
                       ELSE IF r.ret.kind = "undefined" THEN "plain"
                       ELSE "prepared"]
  /\ UNCHANGED <<meta, pass, lastMut, recorded, pup, nbk, rnd>>
  /\ UNCHANGED pageVars

\* the conversion engine converts page p, or fails
ConcConvert(p, ok) ==
  /\ conc.stage = "on"
  /\ conc.pc[p] \in {"prepared", "plain"}
  /\ conc' = [conc EXCEPT !.pc[p] = IF ok THEN "converted" ELSE "failed"]
  /\ UNCHANGED <<store, meta, pass, lastMut, recorded, pup, nbk, rnd>>
  /\ UNCHANGED pageVars

NextConc ==
  \/ \E p \in Pages : ConcCall(p)
  \/ \E p \in Pages : ConcResume(p)
  \/ \E p \in Pages, ok \in BOOLEAN : ConcConvert(p, ok)

SpecConc == InitConc /\ [][NextConc]_vars

(***************************************************************************)
(* puppeteer.ts: withPuppeteerBrowserAndPage and inPuppeteer, the retry    *)
(* loop around withHeadlessBrowser.                                        *)
(***************************************************************************)
allowedErrorMessages ==
  <<"Navigation failed because browser has disconnected!",
    "Navigation timeout of 30000 ms exceeded",
    "Evaluation failed: undefined">>

maxAttempts == 5

\* the messages of the errors the browser automation raises
OtherError == "net::ERR_CONNECTION_REFUSED"
ErrorMessages == Range(allowedErrorMessages) \cup {OtherError}

InternalError == "Internal Error - shouldn't have arrived here."
NoError == "none"

\* what the function evaluated in the page yields
ClientSideResult == "outerHTML"

Helpers == {"withPuppeteerBrowserAndPage", "inPuppeteer"}

\* the steps of fn at which the automation can raise an error
FnSteps == {"newPage", "goto", "f"}

\* the catch clause with the bound on the attempts read one too far
shouldRetryInclusive(message, attempts) ==
  /\ message \in Range(allowedErrorMessages)
  /\ attempts <= maxAttempts

\* the condition of the catch clause: log and go round again
shouldRetry(message, attempts) ==
  /\ message \in Range(allowedErrorMessages)
  /\ attempts < maxAttempts

Pending == [kind |-> "pending", value |-> Undefined]

\* the loop left after every attempt that raised no error
returnsAfterAttemptAlways(finished) == TRUE

\* if (finished) { return; }
returnsAfterAttempt(finished) == finished

\* the browser closed only when fn ended without an error
closeBrowserOnSuccess(open, error) ==
  IF error = NoError THEN open - 1 ELSE open

\* finally { await browser.close(); }: after fn, whether it threw or not
closeBrowser(open, error) == open - 1

\* await fn(browser); return; -- what fn yielded is dropped
withHeadlessBrowserResult(result) == Undefined

PupInit ==
  pup \in {[pc |-> "loop", helper |-> h, installed |-> b, attempts |-> 0,
            finished |-> FALSE, open |-> 0, error |-> NoError,
            result |-> Undefined, fCalls |-> 0, completed |-> 0,
            launched |-> 0, history |-> <<>>,
            outcome |-> Pending] : h \in Helpers, b \in BOOLEAN}

InitRetry ==
  /\ CacheInit
  /\ PageIdle
  /\ conc = [stage |-> "off"]
  /\ nbk = [stage |-> "off"]
  /\ rnd = [pc |-> "off"]
  /\ PupInit

notPup == <<store, meta, pass, lastMut, recorded, pg, extras, feedCall,
            conc, nbk, rnd>>

\* while (attempts++ < maxAttempts), and the throw after the loop
PupLoop ==
  /\ pup.pc = "loop"
  /\ IF pup.attempts < maxAttempts
     THEN pup' = [pup EXCEPT !.pc = "fetch", !.attempts = @ + 1,
                             !.finished = FALSE, !.error = NoError,
                             !.result = Undefined]
     ELSE pup' = [pup EXCEPT !.pc = "done", !.attempts = @ + 1,
                             !.outcome = [kind |-> "thrown",
                                          value |-> InternalError]]
  /\ UNCHANGED notPup

\* withHeadlessBrowser: fetchBrowser yields no browser when chromium is not
\* installed, and withHeadlessBrowser returns without calling fn
PupNoBrowser ==
  /\ pup.pc = "fetch"
  /\ ~pup.installed
  /\ pup' = [pup EXCEPT !.pc = "check"]
  /\ UNCHANGED notPup

\* fetchBrowser: puppeteer.launch yields a browser
PupLaunch ==
  /\ pup.pc = "fetch"
  /\ pup.installed
  /\ pup' = [pup EXCEPT !.pc = "fn", !.open = @ + 1, !.launched = @ + 1]
  /\ UNCHANGED notPup

\* fetchBrowser: puppeteer.launch raises an error
PupLaunchFails(e) ==
  /\ pup.pc = "fetch"
  /\ pup.installed
  /\ pup' = [pup EXCEPT !.pc = "catch", !.error = e]
  /\ UNCHANGED notPup

\* fn(browser): newPage, goto, then f or page.evaluate; one of them raises
\* an error, or all of them end
PupRunFails(step, e) ==
  /\ pup.pc = "fn"
  /\ pup' = [pup EXCEPT !.pc = "close", !.error = e,
                        !.fCalls = IF step = "f" THEN @ + 1 ELSE @]
  /\ UNCHANGED notPup

PupRunEnds ==
  /\ pup.pc = "fn"
  /\ pup' = [pup EXCEPT !.pc = "close", !.fCalls = @ + 1,
                        !.completed = @ + 1,
                        !.finished =
                          (pup.helper = "withPuppeteerBrowserAndPage"),
                        !.result = IF pup.helper = "inPuppeteer"
                                   THEN ClientSideResult ELSE Undefined]
  /\ UNCHANGED notPup

\* finally { await browser.close() }: then the error of fn goes on to the
\* catch clause, or withHeadlessBrowser returns, with no value
PupClose ==
  /\ pup.pc = "close"
  /\ pup' = [pup EXCEPT !.pc = IF pup.error = NoError THEN "check" ELSE "catch",
                        !.open = closeBrowser(@, pup.error),
                        !.result = withHeadlessBrowserResult(@)]
  /\ UNCHANGED notPup

\* withHeadlessBrowser has returned: if (finished) return, or return await
PupCheck ==
  /\ pup.pc = "check"
  /\ LET attempt == IF pup.installed THEN "ended" ELSE "no browser"
     IN  IF pup.helper = "inPuppeteer"
         THEN pup' = [pup EXCEPT !.pc = "done",
                                 !.history = Append(@, attempt),
                                 !.outcome = [kind |-> "returned",
                                              value |-> pup.result]]
         ELSE IF returnsAfterAttempt(pup.finished)
         THEN pup' = [pup EXCEPT !.pc = "done",
                                 !.history = Append(@, attempt),
                                 !.outcome = [kind |-> "returned",
                                              value |-> Undefined]]
         ELSE pup' = [pup EXCEPT !.pc = "loop",
                                 !.history = Append(@, attempt)]
  /\ UNCHANGED notPup

\* catch (error): retry, or throw error
PupCatch ==
  /\ pup.pc = "catch"
  /\ IF shouldRetry(pup.error, pup.attempts)
     THEN pup' = [pup EXCEPT !.pc = "loop",
                             !.history = Append(@, pup.error)]
     ELSE pup' = [pup EXCEPT !.pc = "done",
                             !.history = Append(@, pup.error),
                             !.outcome = [kind |-> "thrown",
                                          value |-> pup.error]]
  /\ UNCHANGED notPup

NextRetry ==
  \/ PupLoop
  \/ PupNoBrowser
  \/ PupLaunch
  \/ \E e \in ErrorMessages : PupLaunchFails(e)
  \/ \E step \in FnSteps, e \in ErrorMessages : PupRunFails(step, e)
  \/ PupRunEnds
  \/ PupClose
  \/ PupCheck
  \/ PupCatch

SpecRetry == InitRetry /\ [][NextRetry]_vars

(***************************************************************************)
(* core/jupyter/preserve.ts.  A text is a sequence of symbols, one symbol  *)
(* for one character or for one run of characters no operation splits:     *)
(* "S" is the opening script tag, "P" is define('plotly', "w" is white     *)
(* space, "preserve" is the prefix of a key and "u1", "u2", ... are the    *)
(* uuids with their dashes removed.                                        *)
(***************************************************************************)
RECURSIVE Flatten(_)
Flatten(parts) ==
  IF parts = <<>> THEN <<>> ELSE Head(parts) \o Flatten(Tail(parts))

\* String.prototype.indexOf, from 0; -1 when the key does not occur
Occurs(text, key, i) ==
  /\ i + Len(key) <= Len(text)
  /\ SubSeq(text, i + 1, i + Len(key)) = key

indexOf(text, key) ==
  IF \E i \in 0..Len(text) : Occurs(text, key, i)
  THEN CHOOSE i \in 0..Len(text) :
         /\ Occurs(text, key, i)
         /\ \A j \in 0..(i - 1) : ~Occurs(text, key, j)
  ELSE -1

\* String.prototype.slice: a negative index counts from the end, and an
\* index beyond the end is the end
SliceIndex(text, i) ==
  IF i < 0 THEN (IF Len(text) + i < 0 THEN 0 ELSE Len(text) + i)
  ELSE IF i > Len(text) THEN Len(text) ELSE i

slice(text, start, end) ==
  SubSeq(text, SliceIndex(text, start) + 1, SliceIndex(text, end))

sliceFrom(text, start) == slice(text, start, Len(text))

\* isPlotlyLibrary: /^\s*<script type="text\/javascript">/ and
\* /define\('plotly'/
isPlotlyLibrary(text) ==
  /\ \E k \in 1..Len(text) :
       /\ text[k] = "S"
       /\ \A j \in 1..(k - 1) : text[j] = "w"
  /\ "P" \in Range(text)

\* uuid/v4.ts generate, with the dashes removed: the n-th uuid of the run
Uuids == <<"u1", "u2", "u3", "u4">>
generateUuid(n) == Uuids[n]

NoHtml == [defined |-> FALSE, parts |-> <<>>]
HtmlOf(parts) == [defined |-> TRUE, parts |-> parts]

Output(cellType, outputType, html) ==
  [cell_type |-> cellType, output_type |-> outputType, html |-> html,
   markdown |-> NoHtml, noCaption |-> FALSE]

\* the outputs a notebook is made of: plotly's library as one string and as
\* an array, other html, no html, and outputs that are not display data of
\* a code cell
NotebookOutputs ==
  {Output("code", "display_data", HtmlOf(<<<<"S", "P", "x">>>>)),
   Output("code", "display_data", HtmlOf(<<<<"w", "S">>, <<"x", "P">>>>)),
   Output("code", "display_data", HtmlOf(<<<<"x", "S", "P">>>>)),
   Output("code", "display_data", NoHtml),
   Output("code", "stream", HtmlOf(<<<<"S", "P", "x">>>>)),
   Output("markdown", "display_data", HtmlOf(<<<<"S", "P", "x">>>>))}

\* htmlPreserve[key] = htmlText, the keys in the order of their insertion
Put(map, key, text) ==
  IF \E i \in 1..Len(map) : map[i].key = key
  THEN [i \in 1..Len(map) |->
          IF map[i].key = key THEN [key |-> key, html |-> text] ELSE map[i]]
  ELSE Append(map, [key |-> key, html |-> text])

\* the key without the uuid
preserveKeyBare(n) == <<"preserve">>

\* "preserve" + generateUuid().replaceAll("-", "")
preserveKey(n) == <<"preserve", generateUuid(n)>>

isDisplayData(output) == output.output_type = "display_data"

\* the body of the two forEach loops, for the outputs from position i on;
\* n uuids were generated before
RECURSIVE preserveFrom(_, _, _, _)
preserveFrom(outputs, i, n, htmlPreserve) ==
  IF i > Len(outputs)
  THEN [outputs |-> outputs, htmlPreserve |-> htmlPreserve]
  ELSE LET output == outputs[i]
           htmlText == Flatten(output.html.parts)
       IN  IF /\ output.cell_type = "code"
              /\ isDisplayData(output)
              /\ output.html.defined
              /\ isPlotlyLibrary(htmlText)
           THEN LET key == preserveKey(n + 1)
                IN  preserveFrom(
                      [outputs EXCEPT ![i] =
                         [output EXCEPT !.markdown = HtmlOf(<<key>>),
                                        !.noCaption = TRUE,
                                        !.html = NoHtml]],
                      i + 1, n + 1, Put(htmlPreserve, key, htmlText))
           ELSE preserveFrom(outputs, i + 1, n, htmlPreserve)

\* the notebook as the call leaves it, and the map or undefined
removeAndPreserveHtml(nb) ==
  LET r == preserveFrom(nb, 1, 0, <<>>)
  IN  [nb |-> r.outputs,
       preserve |-> IF Len(r.htmlPreserve) > 0
                    THEN [defined |-> TRUE, map |-> r.htmlPreserve]
                    ELSE [defined |-> FALSE, map |-> <<>>]]

\* the rest of the text taken from one character after the key's position
restoreKeyShort(html, key, text) ==
  LET keyLoc == indexOf(html, key)
  IN  slice(html, 0, keyLoc) \o text \o sliceFrom(html, keyLoc + 1)

\* the body of the forEach of restorePreservedHtml
restoreKey(html, key, text) ==
  LET keyLoc == indexOf(html, key)
  IN  slice(html, 0, keyLoc) \o text \o sliceFrom(html, keyLoc + Len(key))

RECURSIVE restoreFrom(_, _, _)
restoreFrom(html, map, i) ==
  IF i > Len(map) THEN html
  ELSE restoreFrom(restoreKey(html, map[i].key, map[i].html), map, i + 1)

restorePreservedHtml(html, preserve) ==
  IF preserve.defined THEN restoreFrom(html, preserve.map, 1) ELSE html

\* the pieces the converted html is made of: text of the conversion, the
\* prefix of a key on its own, and keys of the notebook
PlainChunks == {<<"x">>, <<"preserve">>}
ChunksOf(preserve) ==
  PlainChunks \cup {preserve.map[i].key : i \in 1..Len(preserve.map)}

NbInit ==
  nbk \in {[stage |-> "loaded", nb |-> outputs,
            preserve |-> [defined |-> FALSE, map |-> <<>>],
            chunks |-> <<>>, html |-> <<>>, restored |-> <<>>,
            again |-> <<>>] :
             outputs \in SeqsUpTo(NotebookOutputs, MaxOutputs)}

InitPreserve ==
  /\ CacheInit
  /\ PageIdle
  /\ conc = [stage |-> "off"]
  /\ pup = [pc |-> "off"]
  /\ rnd = [pc |-> "off"]
  /\ NbInit

notNbk == <<store, meta, pass, lastMut, recorded, pg, extras, feedCall,
            conc, pup, rnd>>

\* the html of plotly's library is taken out of the notebook
NbPreserve ==
  /\ nbk.stage = "loaded"
  /\ LET r == removeAndPreserveHtml(nbk.nb)
     IN  nbk' = [nbk EXCEPT !.stage = "preserved", !.nb = r.nb,
                            !.preserve = r.preserve]
  /\ UNCHANGED notNbk

\* the notebook is converted: the html holds the keys the conversion kept
NbConvert(chunks) ==
  /\ nbk.stage = "preserved"
  /\ nbk' = [nbk EXCEPT !.stage = "converted", !.chunks = chunks,
                        !.html = Flatten(chunks)]
  /\ UNCHANGED notNbk

NbRestore ==
  /\ nbk.stage = "converted"
  /\ nbk' = [nbk EXCEPT !.stage = "restored",
                        !.restored = restorePreservedHtml(nbk.html, nbk.preserve)]
  /\ UNCHANGED notNbk

\* the restored html is handed to restorePreservedHtml once more
NbRestoreAgain ==
  /\ nbk.stage = "restored"
  /\ nbk' = [nbk EXCEPT !.stage = "restored twice",
                        !.again = restorePreservedHtml(nbk.restored, nbk.preserve)]
  /\ UNCHANGED notNbk

NextPreserve ==
  \/ NbPreserve
  \/ \E chunks \in SeqsUpTo(ChunksOf(nbk.preserve), MaxChunks) : NbConvert(chunks)
  \/ NbRestore
  \/ NbRestoreAgain

SpecPreserve == InitPreserve /\ [][NextPreserve]_vars

(***************************************************************************)
(* command/render: cleanup.ts and the render function of render.ts.  The   *)
(* disk is a function from paths to what they hold.                        *)
(***************************************************************************)
Absent == "absent"

MdOutput == "doc.ipynb-md"
KeepMdPath == "doc.md"
TempDir == "/tmp/quarto0"
RecipeOutputs == {"doc.html", "doc.md", "doc.docx", "doc.tex"}
SupportingChoices ==
  {[defined |-> FALSE, paths |-> <<>>],
   [defined |-> TRUE, paths |-> <<>>],
   [defined |-> TRUE, paths |-> <<"doc_files">>],
   [defined |-> TRUE, paths |-> <<"doc_files", "doc_libs">>]}

DiskPaths ==
  {MdOutput, KeepMdPath, TempDir, "doc.pdf", "doc_files", "doc_libs"}
    \cup RecipeOutputs

kStandaloneExtensions ==
  <<".pdf", ".epub", ".fb2", ".docx", ".rtf", ".pptx", ".odt", ".ipynb">>

\* path/mod.ts extname, for the files of the render
extname(path) ==
  ("doc.html" :> ".html" @@ "doc.md" :> ".md" @@ "doc.docx" :> ".docx" @@
   "doc.tex" :> ".tex" @@ "doc.pdf" :> ".pdf")[path]

\* core/path.ts removeIfExists
removeIfExists(fs, path) == [fs EXCEPT ![path] = Absent]

Done(fs) == [fs |-> fs, threw |-> FALSE]
Failed(fs) == [fs |-> fs, threw |-> TRUE]

\* Deno.copyFileSync: throws when there is no file to copy
copyFileSync(fs, from, to) ==
  IF fs[from] = Absent THEN Failed(fs)
  ELSE Done([fs EXCEPT ![to] = fs[from]])

\* Deno.removeSync(path, { recursive: true }): throws when the path is absent
removeSync(fs, path) ==
  IF fs[path] = Absent THEN Failed(fs)
  ELSE Done([fs EXCEPT ![path] = Absent])

\* an existing file at the keep md path removed, the final output or not
keepMdStepUnguarded(format, mdOutput, finalOutput, keepMd, fs) ==
  IF keepMd # Undefined
  THEN IF format.keepMd THEN copyFileSync(fs, mdOutput, keepMd)
       ELSE Done(removeIfExists(fs, keepMd))
  ELSE Done(fs)

\* if we have a keep md then copy to it (otherwise remove any existing
\* version)
keepMdStep(format, mdOutput, finalOutput, keepMd, fs) ==
  IF keepMd # Undefined
  THEN IF format.keepMd THEN copyFileSync(fs, mdOutput, keepMd)
       ELSE IF keepMd # finalOutput THEN Done(removeIfExists(fs, keepMd))
       ELSE Done(fs)
  ELSE Done(fs)

\* self contained by the flag alone
selfContainedFlagOnly(flags, format, finalOutput) == flags.selfContained

\* determine if we will be self contained
selfContained(flags, format, finalOutput) ==
  \/ flags.selfContained
  \/ format.pandocSelfContained
  \/ extname(finalOutput) \in Range(kStandaloneExtensions)

\* supporting.forEach(removeSync), from position i on
RECURSIVE removeSupporting(_, _, _)
removeSupporting(fs, paths, i) ==
  IF i > Len(paths) THEN Done(fs)
  ELSE LET r == removeSync(fs, paths[i])
       IN  IF r.threw THEN r ELSE removeSupporting(r.fs, paths, i + 1)

cleanup(flags, format, mdOutput, finalOutput, supporting, tempDir, keepMd, fs) ==
  LET r1 == keepMdStep(format, mdOutput, finalOutput, keepMd, fs)
      fs2 == IF ~flags.debug THEN removeIfExists(r1.fs, mdOutput) ELSE r1.fs
      r3 == IF /\ ~format.keepMd
               /\ ~format.keepTex
               /\ selfContained(flags, format, finalOutput)
               /\ supporting.defined
            THEN removeSupporting(fs2, supporting.paths, 1)
            ELSE Done(fs2)
  IN  IF r1.threw THEN r1
      ELSE IF r3.threw THEN r3
      ELSE Done(removeIfExists(r3.fs, tempDir))

\* output.ts outputRecipe: the complete handler of a tex output runs latexmk
finalOutputOf(output) == IF output = "doc.tex" THEN "doc.pdf" ELSE output

RenderInputs ==
  [flags : [debug : BOOLEAN, selfContained : BOOLEAN],
   format : [keepMd : BOOLEAN, keepTex : BOOLEAN, pandocSelfContained : BOOLEAN],
   output : RecipeOutputs,
   keepMd : {Undefined, KeepMdPath},
   supporting : SupportingChoices,
   postprocess : BOOLEAN,
   stale : BOOLEAN]

\* the disk before the render: the file at the keep md path may exist
DiskBefore(stale) ==
  [p \in DiskPaths |-> IF p = KeepMdPath /\ stale THEN "stale" ELSE Absent]

RenderInit ==
  rnd \in {[pc |-> "start", in |-> i, fs |-> DiskBefore(i.stale),
            before |-> DiskBefore(i.stale), log |-> <<>>,
            result |-> Undefined] : i \in RenderInputs}

InitRender ==
  /\ CacheInit
  /\ PageIdle
  /\ conc = [stage |-> "off"]
  /\ pup = [pc |-> "off"]
  /\ nbk = [stage |-> "off"]
  /\ RenderInit

notRnd == <<store, meta, pass, lastMut, recorded, pg, extras, feedCall,
            conc, pup, nbk>>

\* create a tempDir to be used during computations
RenderMakeTempDir ==
  /\ rnd.pc = "start"
  /\ rnd' = [rnd EXCEPT !.pc = "execute", !.fs[TempDir] = "dir"]
  /\ UNCHANGED notRnd

\* execute computations: the engine writes the markdown and the supporting
\* files, or throws
RenderExecute(ok) ==
  /\ rnd.pc = "execute"
  /\ IF ok
     THEN rnd' = [rnd EXCEPT
                    !.pc = "pandoc",
                    !.fs = [p \in DiskPaths |->
                              IF p = MdOutput THEN "markdown"
                              ELSE IF p \in Range(rnd.in.supporting.paths)
                              THEN "dir"
                              ELSE rnd.fs[p]]]
     ELSE rnd' = [rnd EXCEPT !.pc = "thrown"]
  /\ UNCHANGED notRnd

\* run pandoc conversion (exit on failure)
RenderPandoc(success) ==
  /\ rnd.pc = "pandoc"
  /\ IF success
     THEN rnd' = [rnd EXCEPT !.pc = "postprocess",
                             !.fs[rnd.in.output] = "output",
                             !.log = Append(@, "pandoc")]
     ELSE rnd' = [rnd EXCEPT !.pc = "returned", !.result = "failure",
                             !.log = Append(@, "pandoc failed")]
  /\ UNCHANGED notRnd

\* run optional post-processor
RenderPostprocess ==
  /\ rnd.pc = "postprocess"
  /\ rnd' = [rnd EXCEPT !.pc = "complete",
                        !.log = IF rnd.in.postprocess
                                THEN Append(@, "postprocess") ELSE @]
  /\ UNCHANGED notRnd

\* call complete handler
RenderComplete ==
  /\ rnd.pc = "complete"
  /\ rnd' = [rnd EXCEPT !.pc = "cleanup",
                        !.fs[finalOutputOf(rnd.in.output)] = "output",
                        !.log = Append(@, "complete")]
  /\ UNCHANGED notRnd

\* cleanup as required, report the output and return the result
RenderCleanup ==
  /\ rnd.pc = "cleanup"
  /\ LET r == cleanup(rnd.in.flags, rnd.in.format, MdOutput,
                      finalOutputOf(rnd.in.output), rnd.in.supporting,
                      TempDir, rnd.in.keepMd, rnd.fs)
     IN  rnd' = [rnd EXCEPT !.pc = IF r.threw THEN "thrown" ELSE "returned",
                            !.fs = r.fs,
                            !.before = rnd.fs,
                            !.log = Append(@, "cleanup"),
                            !.result = IF r.threw THEN @ ELSE "success"]
  /\ UNCHANGED notRnd

NextRender ==
  \/ RenderMakeTempDir
  \/ \E ok \in BOOLEAN : RenderExecute(ok)
  \/ \E success \in BOOLEAN : RenderPandoc(success)
  \/ RenderPostprocess
  \/ RenderComplete
  \/ RenderCleanup

SpecRender == InitRender /\ [][NextRender]_vars

(***************************************************************************)
(* Properties of the cache protocol (specification Spec).                  *)
(***************************************************************************)
NoDuplicates(s) == \A i, j \in 1..Len(s) : s[i] = s[j] => i = j

\* the glob patterns the contents of the listings name
DeclaredGlobs(descriptors) ==
  UNION {Range(descriptors[i].listing.contents) : i \in 1..Len(descriptors)}

\* some recorded glob of the entry matches some file of the set
Matches(e, F) == \E f \in F : \E g \in Range(e.globs) : GlobMatch(g, f)

\* the cache as an incremental query reads it
CacheEntries(st) == Range(listingProjectData(st).listingMap)

Queried(kind) == pass.kind = kind /\ pass.status = "queried"

Sound(ret, st, F) ==
  /\ ~ret.threw
  /\ \A e \in CacheEntries(st) :
       Matches(e, F) => join(ProjectDir, e.path) \in Range(ret.value)

\* C1: an incremental call returns every cached listing page one of whose
\* recorded globs matches a changed file, for every cache state and file set
C1_InvalidationSound ==
  Queried("incremental") => Sound(pass.ret, store, pass.files)

C1_Witness ==
  /\ Queried("incremental")
  /\ \E e \in CacheEntries(store) : Matches(e, pass.files)
  /\ \E e \in CacheEntries(store) : ~Matches(e, pass.files)
  /\ Len(pass.ret.value) = 1

Exact(ret, st, F) ==
  /\ ~ret.threw
  /\ NoDuplicates(ret.value)
  /\ \A x \in Range(ret.value) :
       \E e \in CacheEntries(st) : x = join(ProjectDir, e.path) /\ Matches(e, F)
  /\ (\A e \in CacheEntries(st) : ~Matches(e, F)) => ret.value = <<>>

\* C2: the result of an incremental call has no duplicate, holds no listing
\* page whose globs match none of the files, and is empty when nothing matches
C2_DeduplicatedUnion ==
  Queried("incremental") => Exact(pass.ret, store, pass.files)

C2_Witness ==
  /\ Queried("incremental")
  /\ Cardinality(CacheEntries(store)) = 2
  /\ \E e \in CacheEntries(store) : ~Matches(e, pass.files)
  /\ pass.files # {}
  /\ Len(pass.ret.value) = 1

\* C3: a non-incremental call returns the empty list, and from the clear until
\* a listing page is recorded again every incremental query returns the empty
\* sequence
C3_ClearResets ==
  /\ Queried("full") => pass.ret = Returned(<<>>)
  /\ lastMut.op = "clear" /\ Queried("incremental") => pass.ret = Returned(<<>>)

C3_Witness ==
  /\ lastMut.op = "clear"
  /\ Queried("incremental")
  /\ PostA \in pass.files
  /\ meta[BlogIndex].listingDescriptors = <<[listing |-> LPosts, items |-> <<>>]>>
  /\ pass.ret = Returned(<<>>)

\* C4: when a full pass (clear, then every page rendered) is done, the cache
\* has an entry for exactly the pages that declare a listing, each the glob
\* set of the page's descriptors, whatever it held before the pass
C4_FullRenderRebuilds ==
  pass.kind = "full" /\ pass.status = "done" =>
    /\ store.status = "ok"
    /\ CacheKeys(store) = {p \in Pages : meta[p].listingDescriptors # <<>>}
    /\ Len(listingProjectData(store).listingMap) = Cardinality(CacheKeys(store))
    /\ \A p \in CacheKeys(store) :
         Range(CacheEntry(store, p)) = DeclaredGlobs(meta[p].listingDescriptors)

C4_Witness ==
  /\ pass.kind = "full" /\ pass.status = "done"
  /\ \E p \in pass.before : meta[p].listingDescriptors = <<>>
  /\ \E p \in pass.before : Len(meta[p].listingDescriptors) = 2

ScenarioCache ==
  /\ store.status = "ok"
  /\ store.data.hasMap
  /\ store.data.listingMap = <<[path |-> BlogIndex, globs |-> <<GPosts>>]>>

ScenarioQuery(F) == ScenarioCache /\ Queried("incremental") /\ pass.files = F

\* C5 as stated: with cache { blog/index.qmd: [posts/*.md] } the changed files
\* [posts/a.md] yield [blog/index.qmd], the path as keyed in the cache, and
\* [readme.md] yields []
C5_ScenarioRelative ==
  /\ ScenarioQuery({PostA}) => pass.ret = Returned(<<BlogIndex>>)
  /\ ScenarioQuery({Readme}) => pass.ret = Returned(<<>>)

\* C5 as amended: with cache { blog/index.qmd: [posts/*.md] } the changed files
\* [posts/a.md] yield the one path join(project.dir, blog/index.qmd), and
\* [readme.md] yields []
C5_ScenarioJoined ==
  /\ ScenarioQuery({PostA}) =>
       pass.ret = Returned(<<join(ProjectDir, BlogIndex)>>)
  /\ ScenarioQuery({Readme}) => pass.ret = Returned(<<>>)

C5_Witness == ScenarioQuery({PostA}) /\ Len(pass.ret.value) = 1

\* C6: once a page is recorded with its descriptors, the cache entry read for
\* the page is exactly the set of globs of the descriptors' contents,
\* whatever entry the page had before
C6_CacheRoundTrip ==
  \A p \in pass.wrote :
    /\ p \in CacheKeys(store)
    /\ Range(CacheEntry(store, p)) = DeclaredGlobs(meta[p].listingDescriptors)

C6_Witness ==
  /\ lastMut.op = "record"
  /\ pass.kind = "incremental"
  /\ lastMut.path \in pass.before \cap pass.wrote
  /\ Len(meta[lastMut.path].listingDescriptors) = 2
  /\ Cardinality(DeclaredGlobs(meta[lastMut.path].listingDescriptors)) = 3

\* C7: with no clear in between, the cache entry of every path is the glob set
\* of the latest record for that path: a record for one path leaves the
\* entries of the other paths, and the cache has no entry nobody recorded
C7_LastWriteWins ==
  /\ CacheKeys(store) = {p \in Pages : recorded[p].has}
  /\ Len(listingProjectData(store).listingMap) = Cardinality(CacheKeys(store))
  /\ \A p \in CacheKeys(store) : CacheEntry(store, p) = recorded[p].globs

C7_Witness ==
  /\ pass.kind = "incremental"
  /\ lastMut = [op |-> "record", path |-> DocsIndex]
  /\ pass.before = Pages
  /\ recorded[BlogIndex].has /\ recorded[DocsIndex].has
  /\ recorded[BlogIndex].globs # recorded[DocsIndex].globs

Unreadable(st) == st.status \in {"missing", "corrupt"} \/ ~st.data.hasMap

\* C8: a persisted cache that is missing, unreadable or without a listing map
\* is read as empty: the incremental query returns no page and does not throw
C8_FailOpenRead ==
  /\ Unreadable(store) /\ Queried("incremental") => pass.ret = Returned(<<>>)
  /\ pass.kind = "incremental" /\ pass.status = "failed" => pass.wrote # {}

C8_Witness ==
  /\ store.status = "corrupt"
  /\ Queried("incremental")
  /\ pass.files = Files
  /\ \A p \in Pages : meta[p].listingDescriptors # <<>>
  /\ pass.ret = Returned(<<>>)

(***************************************************************************)
(* Properties of the render of one page (specification SpecPage).          *)
(***************************************************************************)
FeedRequested == pg.rd.options.feed

BundledTemplate(type) ==
  IF type = TypeTable THEN "/share/projects/website/listing/listing-table.ejs.md"
  ELSE IF type = TypeGrid THEN "/share/projects/website/listing/listing-grid.ejs.md"
  ELSE "/share/projects/website/listing/listing-default.ejs.md"

PageListings == {pg.rd.listingDescriptors[i] : i \in 1..Len(pg.rd.listingDescriptors)}

\* C10: a listing of type table, grid or default, or of an absent or unknown
\* type, gets the handler of its bundled template with the bundled flag set,
\* whatever its items, contents and template are
C10_DispatchDeterminism ==
  pg.stage # "start" /\ PageListings # {} =>
    /\ (\A d \in PageListings : d.listing.type # TypeCustom) =>
         /\ extras.kind = "extras"
         /\ Len(extras.handlers) = Len(pg.rd.listingDescriptors)
    /\ \A i \in 1..Len(extras.handlers) :
         LET h == extras.handlers[i]
             d == pg.rd.listingDescriptors[i]
         IN  /\ h.listing = d.listing
             /\ h.items = d.items
             /\ d.listing.type # TypeCustom =>
                  /\ ~h.threw
                  /\ h.template = BundledTemplate(d.listing.type)
                  /\ h.bundled

C10_Witness ==
  /\ extras.kind = "extras"
  /\ \E i \in 1..Len(extras.handlers) :
       LET h == extras.handlers[i]
       IN  /\ h.listing.type = TypeGrid
           /\ h.listing.template = "missing.ejs"
           /\ h.items # <<>>
           /\ h.template = "/share/projects/website/listing/listing-grid.ejs.md"

\* the Custom listings of the page whose template is unset or names no file
Unresolved ==
  {i \in 1..Len(pg.rd.listingDescriptors) :
     LET l == pg.rd.listingDescriptors[i].listing
     IN  /\ l.type = TypeCustom
         /\ l.template = Undefined \/ ~existsSync(l.template)}

\* the listing whose handler raised the error of the page
FirstUnresolved ==
  pg.rd.listingDescriptors[CHOOSE i \in Unresolved :
                             \A j \in Unresolved : i <= j].listing

Asked == pg.stage \in {"prepared", "converted", "done", "failed"}

C12_ErrorNamesPathAndId ==
  Asked /\ extras.kind = "error" =>
    /\ FirstUnresolved.template \in Range(extras.message)
    /\ FirstUnresolved.id \in Range(extras.message)

\* C12: the error for a template path that does not exist names that path;
\* the error for an unset template is a fixed text; neither names the listing
\* identifier
C12_ErrorNamesPathOnly ==
  Asked /\ extras.kind = "error" =>
    /\ FirstUnresolved.id \notin Range(extras.message)
    /\ FirstUnresolved.template # Undefined =>
         FirstUnresolved.template \in Range(extras.message)
    /\ FirstUnresolved.template = Undefined =>
         extras.message =
           <<"In order to use a listing of type custom, please provide the path to a template.">>

C12_Witness ==
  /\ extras.kind = "error"
  /\ "missing.ejs" \in Range(extras.message)
  /\ "listing-1" \notin Range(extras.message)

\* the entries of the other pages, as a client of the store reads them
OtherPagesEntries(st, key) ==
  [k \in CacheKeys(st) \ {key} |-> CacheEntry(st, k)]

\* C15: once listingHtmlDependencies has run for a page with listings, the
\* entry of the page holds its globs and the entries of the other pages are
\* as they were, through the conversion and the post processing and when one
\* of them fails
C15_RecordedBeforeConversion ==
  Asked /\ ~noListings(pg.rd) =>
    /\ CacheEntry(store, listingKey(pg.source)) =
         GlobsOf(pg.rd.listingDescriptors)
    /\ OtherPagesEntries(store, listingKey(pg.source)) =
         OtherPagesEntries(pg.before, listingKey(pg.source))

C15_Witness ==
  /\ pg.stage = "failed"
  /\ pg.conversions = 1
  /\ CacheEntry(pg.before, BlogIndex) = <<GAnyMd>>
  /\ CacheEntry(store, BlogIndex) = <<GPosts>>
  /\ CacheEntry(store, DocsIndex) = <<GDocs>>

\* C17: the post processing appends the heading and the category list, in
\* that order, to the element quarto-margin-sidebar when the categories
\* option is set and the element exists; otherwise it leaves the sidebar as
\* the conversion produced it, and it ends without an error either way
C17_CategorySidebar ==
  [][pg.stage = "converted" /\ pg'.stage = "done" /\ extras.kind = "extras" =>
       /\ pg'.doc.sidebar = pg.doc.sidebar
       /\ pg'.doc.sidebarChildren =
            IF extras.options.categories /\ pg.doc.sidebar
            THEN pg.doc.sidebarChildren \o <<"headingEl", "categoriesEl">>
            ELSE pg.doc.sidebarChildren]_vars

C17_Witness ==
  /\ pg.stage = "done"
  /\ extras.kind = "extras"
  /\ extras.options.categories
  /\ pg.doc.sidebarChildren = <<"headingEl", "categoriesEl">>

\* C18: an incremental call of listingSupplementalFiles leaves the cache as
\* it found it, for every file set
C18_IncrementalReadsOnly ==
  [][pass.kind = "none" /\ pass'.kind = "incremental" => store' = store]_vars

C18_Witness ==
  /\ Queried("incremental")
  /\ ~pass.ret.threw
  /\ Len(pass.ret.value) = 2
  /\ Cardinality(CacheKeys(store)) = 2

\* the pages whose render has recorded its listings
ConcRecorded ==
  {p \in Pages : /\ conc.pc[p] \in {"prepared", "converted", "failed"}
                 /\ ~noListings(meta[p])}

\* C16: whatever the interleaving of the renders of different pages, the
\* cache holds the entry of every page that has recorded, equal to the globs
\* that page's render recorded
C16_NoLostUpdate ==
  conc.stage = "on" =>
    \A p \in ConcRecorded :
      CacheEntry(store, p) = GlobsOf(meta[p].listingDescriptors)

C16_Witness ==
  /\ conc.stage = "on"
  /\ ConcRecorded = Pages
  /\ conc.before = MissingStore
  /\ CacheEntry(store, BlogIndex) = <<GPosts>>
  /\ CacheEntry(store, DocsIndex) = <<GDocs, GAnyMd>>
  /\ conc.pc[BlogIndex] = "prepared"
  /\ conc.pc[DocsIndex] = "converted"

\* the attempts the call has begun
Started ==
  Len(pup.history) +
    (IF pup.pc \in {"fetch", "fn", "close", "check", "catch"} THEN 1 ELSE 0)

Last(h) == h[Len(h)]

\* C13 as stated: a call makes at most 5 attempts; every attempt that is
\* followed by another one failed with an allow-listed error; an error that
\* is not allow-listed ends the call, thrown to the caller, on the attempt
\* that raised it
C13_BoundedRetry ==
  pup.pc # "off" =>
    /\ Started <= maxAttempts
    /\ \A i \in 1..Len(pup.history) :
         /\ i < Started => pup.history[i] \in Range(allowedErrorMessages)
         /\ pup.history[i] = OtherError =>
              /\ i = Started
              /\ pup.outcome = [kind |-> "thrown", value |-> OtherError]

\* C14: a call that ends with an attempt that raised an error, one that is
\* not allow-listed or an allow-listed one on the 5th attempt, throws that
\* error to the caller, not the internal error
C14_UnderlyingError ==
  pup.pc = "done" /\ pup.history # <<>> /\ Last(pup.history) \in ErrorMessages =>
    /\ pup.outcome = [kind |-> "thrown", value |-> Last(pup.history)]
    /\ \/ Last(pup.history) \notin Range(allowedErrorMessages)
       \/ Len(pup.history) = maxAttempts

C14_Witness ==
  /\ pup.pc = "done"
  /\ Len(pup.history) = maxAttempts
  /\ Last(pup.history) = "Navigation timeout of 30000 ms exceeded"
  /\ pup.outcome = [kind |-> "thrown",
                    value |-> "Navigation timeout of 30000 ms exceeded"]

\* the keys of the notebook and the html each of them stands for
PreservedKeys == {nbk.preserve.map[i].key : i \in 1..Len(nbk.preserve.map)}

PreservedHtml(key) ==
  LET i == CHOOSE j \in 1..Len(nbk.preserve.map) : nbk.preserve.map[j].key = key
  IN  nbk.preserve.map[i].html

\* how often the key occurs in the text
Occurrences(text, key) ==
  Cardinality({i \in 0..Len(text) : Occurs(text, key, i)})

\* the converted html with every key replaced by the html it stands for
Substituted ==
  Flatten([i \in 1..Len(nbk.chunks) |->
             IF nbk.chunks[i] \in PreservedKeys
             THEN PreservedHtml(nbk.chunks[i])
             ELSE nbk.chunks[i]])

Restored == nbk.stage \in {"restored", "restored twice"}

\* C19: every output taken out of the notebook has a key of its own, and
\* when each key occurs exactly once in the converted html, the restored
\* html is the converted html with each key replaced by the html it stands
\* for and nothing else changed
C19_RoundTrip ==
  /\ nbk.stage \in {"preserved", "converted", "restored", "restored twice"} =>
       /\ \A i, j \in 1..Len(nbk.preserve.map) :
            nbk.preserve.map[i].key = nbk.preserve.map[j].key => i = j
       /\ \A i \in 1..Len(nbk.nb) :
            nbk.nb[i].noCaption =>
              /\ nbk.nb[i].markdown.parts \in {<<k>> : k \in PreservedKeys}
              /\ \A j \in 1..Len(nbk.nb) :
                   nbk.nb[j].markdown = nbk.nb[i].markdown => i = j
  /\ Restored /\ (\A k \in PreservedKeys : Occurrences(nbk.html, k) = 1) =>
       nbk.restored = Substituted

C19_Witness ==
  /\ nbk.stage = "restored"
  /\ Len(nbk.preserve.map) = 2
  /\ nbk.chunks = <<preserveKey(2), <<"preserve">>, preserveKey(1)>>
  /\ nbk.restored = <<"w", "S", "x", "P", "preserve", "S", "P", "x">>

\* C20 as stated: a key that does not occur in the html leaves the html as
\* it is, nothing inserted and nothing dropped, so restoring the restored
\* html once more changes nothing
C20_MissingKeyIgnored ==
  /\ Restored /\ (\A k \in PreservedKeys : Occurrences(nbk.html, k) <= 1) =>
       nbk.restored = Substituted
  /\ nbk.stage = "restored twice" /\
       (\A k \in PreservedKeys : Occurrences(nbk.html, k) = 1) =>
         nbk.again = nbk.restored

\* C21: the render of a page that declares no listing gets no extras and
\* leaves the cache as it is: no entry written, none removed, and an entry an
\* earlier render recorded for the page still there
C21_NoListingNoEffect ==
  [][\A p \in Pages :
       /\ pass.status \in {"queried", "running"}
       /\ p \in pass.todo
       /\ pass'.todo = pass.todo \ {p}
       /\ meta[p].listingDescriptors = <<>>
       => /\ store' = store
          /\ pass'.wrote = pass.wrote
          /\ pass'.status # "failed"]_vars

C21_Witness ==
  /\ pass.kind = "incremental"
  /\ pass.status = "done"
  /\ pass.wrote = {}
  /\ meta[DocsIndex].listingDescriptors = <<>>
  /\ meta[BlogIndex].listingDescriptors # <<>>
  /\ DocsIndex \in CacheKeys(store)

WithBrowserAndPage == pup.pc # "off" /\ pup.helper = "withPuppeteerBrowserAndPage"

\* C22: withPuppeteerBrowserAndPage returns normally exactly when f ran to
\* its end on some attempt; without a browser it does not return normally;
\* f is called at most 5 times in one call
C22_ReturnsIffFinished ==
  WithBrowserAndPage =>
    /\ pup.fCalls <= maxAttempts
    /\ pup.outcome.kind = "returned" => pup.completed > 0
    /\ pup.pc = "done" /\ pup.completed > 0 => pup.outcome.kind = "returned"
    /\ ~pup.installed => pup.outcome.kind # "returned"

C22_Witness ==
  /\ WithBrowserAndPage
  /\ pup.pc = "done"
  /\ pup.outcome.kind = "returned"
  /\ pup.fCalls = 3
  /\ pup.completed = 1
  /\ Len(pup.history) = 4

\* C23 as stated: inPuppeteer returns the value that evaluating f in the
\* page yielded on the attempt that succeeded
C23_ReturnsClientSideResult ==
  /\ pup.pc = "done"
  /\ pup.helper = "inPuppeteer"
  /\ pup.completed > 0
  => pup.outcome = [kind |-> "returned", value |-> ClientSideResult]

BetweenAttempts == pup.pc \in {"loop", "fetch", "check", "catch", "done"}

\* C24: the browser of an attempt is closed before the next attempt starts
\* and before the call returns or throws, whether fn ended or raised an
\* error; the call never has more than one browser open
C24_BrowserClosed ==
  pup.pc # "off" =>
    /\ pup.open <= 1
    /\ BetweenAttempts => pup.open = 0
    /\ pup.pc \in {"fn", "close"} => pup.open = 1

C24_Witness ==
  /\ pup.pc = "fetch"
  /\ pup.launched = 2
  /\ pup.open = 0
  /\ pup.fCalls = 1
  /\ pup.history = <<"Evaluation failed: undefined",
                     "Navigation timeout of 30000 ms exceeded">>

\* cleanup has run and returned
CleanedUp ==
  /\ rnd.pc = "returned"
  /\ rnd.log # <<>>
  /\ Last(rnd.log) = "cleanup"

FinalOutput == finalOutputOf(rnd.in.output)

\* keep-md and keep-tex both off and the output self contained
RemovesSupporting ==
  /\ ~rnd.in.format.keepMd
  /\ ~rnd.in.format.keepTex
  /\ \/ rnd.in.flags.selfContained
     \/ rnd.in.format.pandocSelfContained
     \/ FinalOutput \in {"doc.pdf", "doc.docx"}

\* C25: cleanup removes the supporting files exactly when keep-md and
\* keep-tex are both off and the output is self contained; it always removes
\* the temp dir, and it removes the intermediate markdown unless the debug
\* flag is set
C25_SupportingRemoval ==
  CleanedUp =>
    /\ \A p \in Range(rnd.in.supporting.paths) :
         /\ rnd.before[p] = "dir"
         /\ rnd.fs[p] = Absent <=> RemovesSupporting
         /\ rnd.fs[p] # Absent => rnd.fs[p] = rnd.before[p]
    /\ rnd.fs[TempDir] = Absent
    /\ rnd.fs[MdOutput] = IF rnd.in.flags.debug THEN rnd.before[MdOutput]
                          ELSE Absent

C25_Witness ==
  /\ CleanedUp
  /\ rnd.in.output = "doc.tex"
  /\ ~rnd.in.flags.selfContained
  /\ ~rnd.in.format.pandocSelfContained
  /\ rnd.in.flags.debug
  /\ rnd.before["doc_libs"] = "dir"
  /\ rnd.fs["doc_files"] = Absent
  /\ rnd.fs["doc_libs"] = Absent
  /\ rnd.fs[MdOutput] = "markdown"

\* C26: with a keep md path and keep-md on, the kept file holds the
\* intermediate markdown although that file itself is then removed; with
\* keep-md off a file at the keep md path is removed, unless the path is the
\* final output, which this step leaves as it is
C26_KeepMd ==
  CleanedUp /\ rnd.in.keepMd # Undefined =>
    /\ rnd.in.format.keepMd =>
         /\ rnd.fs[rnd.in.keepMd] = "markdown"
         /\ rnd.fs[rnd.in.keepMd] = rnd.before[MdOutput]
    /\ ~rnd.in.format.keepMd /\ rnd.in.keepMd # FinalOutput =>
         rnd.fs[rnd.in.keepMd] = Absent
    /\ ~rnd.in.format.keepMd /\ rnd.in.keepMd = FinalOutput =>
         /\ rnd.fs[FinalOutput] = "output"
         /\ rnd.fs[FinalOutput] = rnd.before[FinalOutput]

C26_Witness ==
  /\ CleanedUp
  /\ rnd.in.keepMd = KeepMdPath
  /\ rnd.in.format.keepMd
  /\ ~rnd.in.flags.debug
  /\ rnd.before[KeepMdPath] = "stale"
  /\ rnd.fs[KeepMdPath] = "markdown"
  /\ rnd.fs[MdOutput] = Absent

\* C27 as stated: a call of render that returns has removed its temporary
\* directory, and the intermediate markdown unless debug, after a successful
\* and after a failed conversion alike; the post processing and the complete
\* handler run only after a successful conversion and before cleanup
C27_RenderCleansUp ==
  rnd.pc = "returned" =>
    /\ rnd.fs[TempDir] = Absent
    /\ ~rnd.in.flags.debug => rnd.fs[MdOutput] = Absent
    /\ \A i \in 1..Len(rnd.log) :
         rnd.log[i] \in {"postprocess", "complete"} =>
           /\ \E j \in 1..(i - 1) : rnd.log[j] = "pandoc"
           /\ \E j \in (i + 1)..Len(rnd.log) : rnd.log[j] = "cleanup"

====
